---- MODULE Spec2Model ----
(***************************************************************************)
(* Model of the project-structure resolver of translate-i18n-vscode        *)
(* (src/src/i18nProjectManager.ts) and of the translate command that       *)
(* drives it (src/src/translationCommand.ts).                              *)
(*                                                                         *)
(* A name (a directory entry, a language code) is a sequence of            *)
(* one-character strings; a path is the sequence of the names on the way   *)
(* from the filesystem root, so the root is <<>>.  Names hold no path      *)
(* separator and are neither "." nor "..".                                 *)
(***************************************************************************)
EXTENDS Integers, Sequences, FiniteSets, TLC

VARIABLES
    files,       \* paths of the regular files that exist
    dirs,        \* paths of the directories that exist (the root always does)
    op,          \* the call that returned last
    src,         \* its sourceFilePath argument
    tgt,         \* its targetLanguage argument
    structure,   \* ProjectStructureInfo returned by detectProjectStructure
    languages,   \* string[] returned by detectLanguagesFromProject
    targetPath,  \* string returned by generateTargetFilePath
    threw,       \* TRUE iff the call ended with an exception
    preFiles,    \* files when the call started
    preDirs,     \* dirs when the call started
    pc,          \* where the running handleTranslateCommand is suspended
    reached,     \* the steps the running handleTranslateCommand has reached
    message,     \* the message handleTranslateCommand showed last
    request,     \* targetLanguageCode of the TranslationRequest sent last
    secretKey,   \* the API key in context.secrets
    configKey,   \* the API key in the workspace configuration
    runs,        \* how many times the command was invoked
    normalized,  \* string returned by normalizeLanguageCode
    valid,       \* boolean returned by validateLanguageCode
    earlier,     \* the call before the last one, where a call is repeated
    service,     \* the last call of the key manager or of the translation
                 \* service: what it was given and what it returned
    other,       \* the second caller of the resolver or invocation of the
                 \* command, while the first one runs
    probes       \* how many times getUniqueFilePath called fs.existsSync in
                 \* the generateTargetFilePath that returned last, 0 after
                 \* another call

coreVars == <<op, structure, threw, preFiles, preDirs>>
cmdVars == <<pc, reached, message, request, secretKey, configKey, runs>>
pureVars == <<normalized, valid, earlier>>
callVars == <<service, other, probes>>

vars == <<files, dirs, op, src, tgt, structure, languages, targetPath, threw,
          preFiles, preDirs, pc, reached, message, request, secretKey,
          configKey, runs, normalized, valid, earlier, service, other,
          probes>>

----------------------------------------------------------------------------
(* Characters and strings *)

LowerLetters == <<"a","b","c","d","e","f","g","h","i","j","k","l","m",
                  "n","o","p","q","r","s","t","u","v","w","x","y","z">>
UpperLetters == <<"A","B","C","D","E","F","G","H","I","J","K","L","M",
                  "N","O","P","Q","R","S","T","U","V","W","X","Y","Z">>
DigitChars == <<"0","1","2","3","4","5","6","7","8","9">>

LowerSet == {LowerLetters[i] : i \in DOMAIN LowerLetters}
UpperSet == {UpperLetters[i] : i \in DOMAIN UpperLetters}
DigitSet == {DigitChars[i] : i \in DOMAIN DigitChars}

IsLower(c) == c \in LowerSet
IsUpper(c) == c \in UpperSet
IsLetter(c) == IsLower(c) \/ IsUpper(c)
IsDigit(c) == c \in DigitSet

CharToLower(c) ==
    IF IsUpper(c)
    THEN LowerLetters[CHOOSE i \in DOMAIN UpperLetters : UpperLetters[i] = c]
    ELSE c
CharToUpper(c) ==
    IF IsLower(c)
    THEN UpperLetters[CHOOSE i \in DOMAIN LowerLetters : LowerLetters[i] = c]
    ELSE c

\* String.prototype.toLowerCase / toUpperCase
ToLowerCase(s) == [i \in 1..Len(s) |-> CharToLower(s[i])]
ToUpperCase(s) == [i \in 1..Len(s) |-> CharToUpper(s[i])]

\* String.prototype.endsWith
EndsWith(s, suffix) ==
    /\ Len(suffix) <= Len(s)
    /\ SubSeq(s, Len(s) - Len(suffix) + 1, Len(s)) = suffix

\* the template literal `${counter}`: a positive integer in decimal
RECURSIVE NumberToString(_)
NumberToString(n) ==
    IF n < Len(DigitChars)
    THEN <<DigitChars[n + 1]>>
    ELSE NumberToString(n \div Len(DigitChars))
             \o <<DigitChars[(n % Len(DigitChars)) + 1]>>

\* the value `undefined` where a string is expected
Undefined == <<"undefined">>

JsonExt == <<".","j","s","o","n">>

----------------------------------------------------------------------------
(* languageCodeRegex *)

\* The anchored pattern
\*   ^([a-z]{2,3})(-([A-Z][a-z]{3}))?(-([A-Z]{2,3}|[0-9]{3}))?$   with flag i
\* matches s in the way g, which gives the lengths of the language, script
\* and region groups (0 for an optional group that takes no part).  Under
\* flag i each letter class accepts both cases.
RegexGroupLengths == [language : {2, 3}, script : {0, 4}, region : {0, 2, 3}]

RegexMatchesAs(s, g) ==
    LET scriptAt == g.language + 1
        regionAt == g.language + (IF g.script > 0 THEN 1 + g.script ELSE 0) + 1
    IN  /\ Len(s) = g.language
                      + (IF g.script > 0 THEN 1 + g.script ELSE 0)
                      + (IF g.region > 0 THEN 1 + g.region ELSE 0)
        /\ \A i \in 1..g.language : IsLetter(s[i])
        /\ g.script > 0 =>
              /\ s[scriptAt] = "-"
              /\ \A i \in 1..g.script : IsLetter(s[scriptAt + i])
        /\ g.region > 0 =>
              /\ s[regionAt] = "-"
              /\ \/ \A i \in 1..g.region : IsLetter(s[regionAt + i])
                 \/ /\ g.region = 3
                    /\ \A i \in 1..g.region : IsDigit(s[regionAt + i])

\* this.languageCodeRegex.test(s)
LanguageCodeRegexTest(s) == \E g \in RegexGroupLengths : RegexMatchesAs(s, g)

----------------------------------------------------------------------------
(* Node's path module on normalized absolute paths *)

\* path.dirname
Dirname(p) == IF Len(p) = 0 THEN p ELSE SubSeq(p, 1, Len(p) - 1)

\* path.basename(p): the name of the root is the empty string
Basename(p) == IF Len(p) = 0 THEN <<>> ELSE p[Len(p)]

\* path.basename(p, suffix) for a path with a directory part: the suffix is
\* removed only when something is left in front of it
BasenameSuffix(p, suffix) ==
    LET b == Basename(p)
    IN  IF EndsWith(b, suffix) /\ Len(b) > Len(suffix)
        THEN SubSeq(b, 1, Len(b) - Len(suffix))
        ELSE b

\* path.basename(name, suffix) for a bare entry name: a name equal to the
\* suffix yields the empty string
NameBasenameSuffix(name, suffix) ==
    IF name = suffix THEN <<>> ELSE BasenameSuffix(<<name>>, suffix)

\* path.extname(p): from the last dot of the base name, unless that dot is its
\* first character or there is none
Extname(p) ==
    LET b == Basename(p)
        dots == {i \in 2..Len(b) : b[i] = "."}
        last == CHOOSE i \in dots : \A j \in dots : j <= i
    IN  IF dots = {} \/ b = <<".", ".">> THEN <<>> ELSE SubSeq(b, last, Len(b))

\* path.join(p, name): an empty segment is skipped
Join(p, name) == IF name = <<>> THEN p ELSE Append(p, name)

----------------------------------------------------------------------------
(* Node's fs module on the filesystem (fl, dr) *)

Root == <<>>

\* fs.existsSync as it would be if it saw directories only
ExistsSyncDirectory(p, fl, dr) == p = Root \/ p \in dr

\* fs.existsSync
ExistsSync(p, fl, dr) == p = Root \/ p \in fl \/ p \in dr

IsDirectory(p, dr) == p = Root \/ p \in dr

\* the proper ancestors of p and p itself, the root left out
RECURSIVE Ancestors(_)
Ancestors(p) == IF Len(p) = 0 THEN {} ELSE {p} \cup Ancestors(Dirname(p))

\* fs.mkdirSync(p, {recursive: true}) fails when p or one of its ancestors is a
\* regular file
MkdirFails(p, fl) == Ancestors(p) \cap fl # {}
MkdirSync(p, dr) == dr \cup Ancestors(p)

\* fs.readdirSync(p, {withFileTypes: true}) fails unless p is a directory
ReaddirFails(p, dr) == ~IsDirectory(p, dr)
ReaddirEntries(p, fl, dr) ==
    { [name |-> Basename(q), isFile |-> q \in fl, isDirectory |-> q \in dr] :
        q \in {e \in fl \cup dr : Len(e) > 0 /\ Dirname(e) = p} }

\* fs.writeFileSync(p, ...) fails unless p's directory exists and p is no
\* directory
WriteFails(p, dr) == ~IsDirectory(Dirname(p), dr) \/ IsDirectory(p, dr)

----------------------------------------------------------------------------
(* I18nProjectManager *)

FolderBased == "folder"
FileBased == "file"
Unknown == "unknown"

\* detectProjectStructure with the two checks in the other order
DetectProjectStructureFileFirst(sourceFilePath) ==
    LET sourceDir == Dirname(sourceFilePath)
        sourceFileName == BasenameSuffix(sourceFilePath, JsonExt)
        parentDirName == Basename(sourceDir)
    IN  IF LanguageCodeRegexTest(sourceFileName)
        THEN [type |-> FileBased,
              basePath |-> sourceDir,
              sourceLanguage |-> sourceFileName]
        ELSE IF LanguageCodeRegexTest(parentDirName)
        THEN [type |-> FolderBased,
              basePath |-> Dirname(sourceDir),
              sourceLanguage |-> parentDirName]
        ELSE [type |-> Unknown,
              basePath |-> sourceDir,
              sourceLanguage |-> Undefined]

\* detectProjectStructure returning the source language in lower case
DetectProjectStructureLowered(sourceFilePath) ==
    LET sourceDir == Dirname(sourceFilePath)
        sourceFileName == BasenameSuffix(sourceFilePath, JsonExt)
        parentDirName == Basename(sourceDir)
    IN  IF LanguageCodeRegexTest(parentDirName)
        THEN [type |-> FolderBased,
              basePath |-> Dirname(sourceDir),
              sourceLanguage |-> ToLowerCase(parentDirName)]
        ELSE IF LanguageCodeRegexTest(sourceFileName)
        THEN [type |-> FileBased,
              basePath |-> sourceDir,
              sourceLanguage |-> ToLowerCase(sourceFileName)]
        ELSE [type |-> Unknown,
              basePath |-> sourceDir,
              sourceLanguage |-> Undefined]

\* detectProjectStructure taking the source directory for the base path of a
\* FolderBased project
DetectProjectStructureParentBase(sourceFilePath) ==
    LET sourceDir == Dirname(sourceFilePath)
        sourceFileName == BasenameSuffix(sourceFilePath, JsonExt)
        parentDirName == Basename(sourceDir)
    IN  IF LanguageCodeRegexTest(parentDirName)
        THEN [type |-> FolderBased,
              basePath |-> sourceDir,
              sourceLanguage |-> parentDirName]
        ELSE IF LanguageCodeRegexTest(sourceFileName)
        THEN [type |-> FileBased,
              basePath |-> sourceDir,
              sourceLanguage |-> sourceFileName]
        ELSE [type |-> Unknown,
              basePath |-> sourceDir,
              sourceLanguage |-> Undefined]

\* detectProjectStructure classifying only files that exist
DetectProjectStructureOnDisk(sourceFilePath) ==
    LET sourceDir == Dirname(sourceFilePath)
        sourceFileName == BasenameSuffix(sourceFilePath, JsonExt)
        parentDirName == Basename(sourceDir)
    IN  IF sourceFilePath \in files /\ LanguageCodeRegexTest(parentDirName)
        THEN [type |-> FolderBased,
              basePath |-> Dirname(sourceDir),
              sourceLanguage |-> parentDirName]
        ELSE IF sourceFilePath \in files /\ LanguageCodeRegexTest(sourceFileName)
        THEN [type |-> FileBased,
              basePath |-> sourceDir,
              sourceLanguage |-> sourceFileName]
        ELSE [type |-> Unknown,
              basePath |-> sourceDir,
              sourceLanguage |-> Undefined]

\* private detectProjectStructure(sourceFilePath)
DetectProjectStructure(sourceFilePath) ==
    LET sourceDir == Dirname(sourceFilePath)
        sourceFileName == BasenameSuffix(sourceFilePath, JsonExt)
        parentDirName == Basename(sourceDir)
    IN  IF LanguageCodeRegexTest(parentDirName)
        THEN [type |-> FolderBased,
              basePath |-> Dirname(sourceDir),
              sourceLanguage |-> parentDirName]
        ELSE IF LanguageCodeRegexTest(sourceFileName)
        THEN [type |-> FileBased,
              basePath |-> sourceDir,
              sourceLanguage |-> sourceFileName]
        ELSE [type |-> Unknown,
              basePath |-> sourceDir,
              sourceLanguage |-> Undefined]

\* private getUniqueFilePath(filePath): the do-while loop from `counter`
RECURSIVE UniqueFrom(_, _, _, _, _, _)
UniqueFrom(dir, baseName, ext, counter, fl, dr) ==
    LET uniquePath ==
            Join(dir, baseName \o <<" ", "(">> \o NumberToString(counter)
                          \o <<")">> \o ext)
    IN  IF ExistsSync(uniquePath, fl, dr)
        THEN UniqueFrom(dir, baseName, ext, counter + 1, fl, dr)
        ELSE uniquePath

\* how many times the do-while loop from `counter` calls fs.existsSync
RECURSIVE UniqueProbes(_, _, _, _, _, _)
UniqueProbes(dir, baseName, ext, counter, fl, dr) ==
    LET uniquePath ==
            Join(dir, baseName \o <<" ", "(">> \o NumberToString(counter)
                          \o <<")">> \o ext)
    IN  IF ExistsSync(uniquePath, fl, dr)
        THEN 1 + UniqueProbes(dir, baseName, ext, counter + 1, fl, dr)
        ELSE 1

\* the calls of fs.existsSync as they would be if the loop tested the path
\* itself once more before numbering it
GetUniqueFilePathProbesRetesting(filePath, fl, dr) ==
    IF ~ExistsSync(filePath, fl, dr)
    THEN 1
    ELSE LET ext == Extname(filePath)
         IN  2 + UniqueProbes(Dirname(filePath), BasenameSuffix(filePath, ext),
                              ext, 1, fl, dr)

\* how many times getUniqueFilePath(filePath) calls fs.existsSync
GetUniqueFilePathProbes(filePath, fl, dr) ==
    IF ~ExistsSync(filePath, fl, dr)
    THEN 1
    ELSE LET ext == Extname(filePath)
         IN  1 + UniqueProbes(Dirname(filePath), BasenameSuffix(filePath, ext),
                              ext, 1, fl, dr)

\* getUniqueFilePath with the counter starting at 0
GetUniqueFilePathFromZero(filePath, fl, dr) ==
    IF ~ExistsSync(filePath, fl, dr)
    THEN filePath
    ELSE LET ext == Extname(filePath)
         IN  UniqueFrom(Dirname(filePath), BasenameSuffix(filePath, ext), ext,
                        0, fl, dr)

\* getUniqueFilePath without the existence check
GetUniqueFilePathUnchecked(filePath, fl, dr) == filePath

\* getUniqueFilePath as it would be if a path handed to the other caller and
\* not yet written counted as taken
GetUniqueFilePathReserving(filePath, fl, dr) ==
    LET held == IF other.op = "generateTargetFilePath" /\ ~other.threw
                THEN {other.targetPath}
                ELSE {}
        ext == Extname(filePath)
    IN  IF ~ExistsSync(filePath, fl \cup held, dr)
        THEN filePath
        ELSE UniqueFrom(Dirname(filePath), BasenameSuffix(filePath, ext), ext,
                        1, fl \cup held, dr)

\* getUniqueFilePath as it would be if only directories were in its way
GetUniqueFilePathAmongDirectories(filePath, fl, dr) ==
    IF ~ExistsSync(filePath, {}, dr)
    THEN filePath
    ELSE LET ext == Extname(filePath)
         IN  UniqueFrom(Dirname(filePath), BasenameSuffix(filePath, ext), ext,
                        1, {}, dr)

GetUniqueFilePath(filePath, fl, dr) ==
    IF ~ExistsSync(filePath, fl, dr)
    THEN filePath
    ELSE LET ext == Extname(filePath)
         IN  UniqueFrom(Dirname(filePath), BasenameSuffix(filePath, ext), ext,
                        1, fl, dr)

\* detectLanguagesFromProject without the isDirectory() / isFile() tests
DetectedLanguageCodesAnyType(sourceFilePath, fl, dr) ==
    LET structureInfo == DetectProjectStructure(sourceFilePath)
        sourceLanguage == structureInfo.sourceLanguage
        entries == IF ReaddirFails(structureInfo.basePath, dr)
                   THEN {}
                   ELSE ReaddirEntries(structureInfo.basePath, fl, dr)
        languageCodes ==
            IF structureInfo.type = FolderBased
            THEN { e.name : e \in { x \in entries :
                       LanguageCodeRegexTest(x.name) } }
            ELSE IF structureInfo.type = FileBased
            THEN { NameBasenameSuffix(e.name, JsonExt) : e \in { x \in entries :
                       /\ EndsWith(x.name, JsonExt)
                       /\ LanguageCodeRegexTest(
                              NameBasenameSuffix(x.name, JsonExt)) } }
            ELSE {}
    IN  IF sourceLanguage # Undefined
        THEN languageCodes \ {sourceLanguage}
        ELSE languageCodes

\* detectLanguagesFromProject(sourceFilePath): the Set languageCodes once the
\* scan and the removal of the source language are done
DetectedLanguageCodes(sourceFilePath, fl, dr) ==
    LET structureInfo == DetectProjectStructure(sourceFilePath)
        sourceLanguage == structureInfo.sourceLanguage
        entries == IF ReaddirFails(structureInfo.basePath, dr)
                   THEN {}
                   ELSE ReaddirEntries(structureInfo.basePath, fl, dr)
        languageCodes ==
            IF structureInfo.type = FolderBased
            THEN { e.name : e \in { x \in entries :
                       x.isDirectory /\ LanguageCodeRegexTest(x.name) } }
            ELSE IF structureInfo.type = FileBased
            THEN { NameBasenameSuffix(e.name, JsonExt) : e \in { x \in entries :
                       /\ x.isFile
                       /\ EndsWith(x.name, JsonExt)
                       /\ LanguageCodeRegexTest(
                              NameBasenameSuffix(x.name, JsonExt)) } }
            ELSE {}
    IN  IF sourceLanguage # Undefined
        THEN languageCodes \ {sourceLanguage}
        ELSE languageCodes

\* detectLanguagesFromProject with the two scans outside their try blocks
DetectLanguagesFromProjectNoCatch(sourceFilePath, fl, dr) ==
    LET structureInfo == DetectProjectStructure(sourceFilePath)
    IN  [threw |-> /\ structureInfo.type \in {FolderBased, FileBased}
                   /\ ReaddirFails(structureInfo.basePath, dr),
         codes |-> DetectedLanguageCodes(sourceFilePath, fl, dr)]

\* detectLanguagesFromProject as it would be if it reported the names in
\* lower case
DetectLanguagesFromProjectLowered(sourceFilePath, fl, dr) ==
    [threw |-> FALSE,
     codes |-> {ToLowerCase(code) :
                   code \in DetectedLanguageCodes(sourceFilePath, fl, dr)}]

\* detectLanguagesFromProject(sourceFilePath) up to the sort: whether it
\* throws, and the Set languageCodes.  An error of fs.readdirSync is caught
\* and logged.
DetectLanguagesFromProject(sourceFilePath, fl, dr) ==
    [threw |-> FALSE, codes |-> DetectedLanguageCodes(sourceFilePath, fl, dr)]

\* primary collation weight of a character of a language code: the hyphen
\* before the digits before the letters, the case of a letter ignored
CollationWeight(c) ==
    IF IsDigit(c)
    THEN CHOOSE i \in DOMAIN DigitChars : DigitChars[i] = c
    ELSE IF IsLetter(c)
    THEN Len(DigitChars)
           + (CHOOSE i \in DOMAIN LowerLetters : LowerLetters[i] = CharToLower(c))
    ELSE 0

\* a.localeCompare(b, undefined, {sensitivity: "base"}) as -1, 0 or 1
RECURSIVE LocaleCompareBase(_, _)
LocaleCompareBase(a, b) ==
    IF Len(a) = 0 \/ Len(b) = 0
    THEN IF Len(a) = Len(b) THEN 0 ELSE IF Len(a) = 0 THEN -1 ELSE 1
    ELSE IF CollationWeight(Head(a)) < CollationWeight(Head(b)) THEN -1
    ELSE IF CollationWeight(Head(a)) > CollationWeight(Head(b)) THEN 1
    ELSE LocaleCompareBase(Tail(a), Tail(b))

\* the UTF-16 code unit order of the characters of a language code: the hyphen
\* before the digits before the upper-case before the lower-case letters
CodeUnitWeight(c) ==
    IF IsDigit(c)
    THEN CHOOSE i \in DOMAIN DigitChars : DigitChars[i] = c
    ELSE IF IsUpper(c)
    THEN Len(DigitChars)
           + (CHOOSE i \in DOMAIN UpperLetters : UpperLetters[i] = c)
    ELSE IF IsLower(c)
    THEN Len(DigitChars) + Len(UpperLetters)
           + (CHOOSE i \in DOMAIN LowerLetters : LowerLetters[i] = c)
    ELSE 0

RECURSIVE CodeUnitCompare(_, _)
CodeUnitCompare(a, b) ==
    IF Len(a) = 0 \/ Len(b) = 0
    THEN IF Len(a) = Len(b) THEN 0 ELSE IF Len(a) = 0 THEN -1 ELSE 1
    ELSE IF CodeUnitWeight(Head(a)) < CodeUnitWeight(Head(b)) THEN -1
    ELSE IF CodeUnitWeight(Head(a)) > CodeUnitWeight(Head(b)) THEN 1
    ELSE CodeUnitCompare(Tail(a), Tail(b))

\* Array.from(languageCodes).sort() without a comparator: code unit order
RECURSIVE SortedArraysByCodeUnit(_)
SortedArraysByCodeUnit(codes) ==
    IF codes = {}
    THEN {<<>>}
    ELSE UNION { { <<m>> \o rest : rest \in SortedArraysByCodeUnit(codes \ {m}) } :
                 m \in { x \in codes :
                           \A y \in codes : CodeUnitCompare(x, y) <= 0 } }

\* Array.from(languageCodes).sort(comparator): the arrays the sort can return.
\* Entries the comparator holds equal keep the order in which the directory
\* listing produced them, which the operating system decides.
RECURSIVE SortedArrays(_)
SortedArrays(codes) ==
    IF codes = {}
    THEN {<<>>}
    ELSE UNION { { <<m>> \o rest : rest \in SortedArrays(codes \ {m}) } :
                 m \in { x \in codes :
                           \A y \in codes : LocaleCompareBase(x, y) <= 0 } }

\* generateTargetFilePath, case FolderBased: the target directory
FolderBasedTargetDir(structureInfo, targetLanguage) ==
    Join(structureInfo.basePath, targetLanguage)

\* the FolderBased case calling mkdirSync whatever exists at the target path
FolderBasedDirsAlways(targetDir, fl, dr) == MkdirSync(targetDir, dr)

\* generateTargetFilePath, case FolderBased: the directories that exist once
\* the target directory was created if nothing existed at its path
FolderBasedDirs(targetDir, fl, dr) ==
    IF ~ExistsSync(targetDir, fl, dr) THEN MkdirSync(targetDir, dr) ELSE dr

\* the FolderBased path without the extension appended
FolderBasedTargetFilePathBare(targetDir, sourceFileName) ==
    Join(targetDir, sourceFileName)

\* generateTargetFilePath, case FolderBased: the path before the collision check
FolderBasedTargetFilePath(targetDir, sourceFileName) ==
    Join(targetDir, sourceFileName \o JsonExt)

\* the FileBased path with the target language in lower case
FileBasedTargetFilePathLowered(structureInfo, targetLanguage) ==
    Join(structureInfo.basePath, ToLowerCase(targetLanguage) \o JsonExt)

\* generateTargetFilePath, case FileBased: the path before the collision check
FileBasedTargetFilePath(structureInfo, targetLanguage) ==
    Join(structureInfo.basePath, targetLanguage \o JsonExt)

\* the default path without the source file's stem
UnknownTargetFilePathNoStem(sourceFilePath, sourceFileName, targetLanguage) ==
    Join(Dirname(sourceFilePath), targetLanguage \o JsonExt)

\* generateTargetFilePath, default case: the path before the collision check
UnknownTargetFilePath(sourceFilePath, sourceFileName, targetLanguage) ==
    Join(Dirname(sourceFilePath),
         sourceFileName \o <<".">> \o targetLanguage \o JsonExt)

\* generateTargetFilePath(sourceFilePath, targetLanguage) on the filesystem
\* (fl, dr): whether it throws, the path it returns and the directories that
\* exist afterwards
GenerateTargetFilePath(sourceFilePath, targetLanguage, fl, dr) ==
    LET structureInfo == DetectProjectStructure(sourceFilePath)
        sourceFileName == BasenameSuffix(sourceFilePath, JsonExt)
        targetDir == FolderBasedTargetDir(structureInfo, targetLanguage)
        newDirs == FolderBasedDirs(targetDir, fl, dr)
        Unique(targetFilePath, dirsNow) ==
            [threw |-> FALSE,
             path |-> GetUniqueFilePath(targetFilePath, fl, dirsNow),
             dirs |-> dirsNow,
             probes |-> GetUniqueFilePathProbes(targetFilePath, fl, dirsNow)]
    IN  IF structureInfo.type = FolderBased
        THEN IF ~ExistsSync(targetDir, fl, dr) /\ MkdirFails(targetDir, fl)
             THEN [threw |-> TRUE, path |-> <<>>, dirs |-> dr, probes |-> 0]
             ELSE Unique(FolderBasedTargetFilePath(targetDir, sourceFileName),
                         newDirs)
        ELSE IF structureInfo.type = FileBased
        THEN Unique(FileBasedTargetFilePath(structureInfo, targetLanguage), dr)
        ELSE Unique(UnknownTargetFilePath(sourceFilePath, sourceFileName,
                                          targetLanguage), dr)

\* the capture groups of code.match(this.languageCodeRegex): the pattern
\* matches in at most one way
RegexGroups(code) ==
    LET g == CHOOSE x \in RegexGroupLengths : RegexMatchesAs(code, x)
        scriptAt == g.language + 1
        regionAt == g.language + (IF g.script > 0 THEN 1 + g.script ELSE 0) + 1
    IN  [language |-> SubSeq(code, 1, g.language),
         script |-> IF g.script > 0
                    THEN SubSeq(code, scriptAt + 1, scriptAt + g.script)
                    ELSE Undefined,
         region |-> IF g.region > 0
                    THEN SubSeq(code, regionAt + 1, regionAt + g.region)
                    ELSE Undefined]

\* normalizeLanguageCode with the region in lower case
NormalizeLanguageCodeRegionLowered(code) ==
    IF ~LanguageCodeRegexTest(code)
    THEN code
    ELSE LET groups == RegexGroups(code)
             withLanguage == ToLowerCase(groups.language)
             withScript ==
                 IF groups.script # Undefined
                 THEN withLanguage \o <<"-">>
                        \o <<CharToUpper(Head(groups.script))>>
                        \o ToLowerCase(Tail(groups.script))
                 ELSE withLanguage
         IN  IF groups.region # Undefined
             THEN withScript \o <<"-">> \o ToLowerCase(groups.region)
             ELSE withScript

\* normalizeLanguageCode leaving out the last subtag that follows the language
NormalizeLanguageCodeWithoutLastSubtag(code) ==
    IF ~LanguageCodeRegexTest(code)
    THEN code
    ELSE LET groups == RegexGroups(code)
             withLanguage == ToLowerCase(groups.language)
         IN  IF groups.script # Undefined /\ groups.region # Undefined
             THEN withLanguage \o <<"-">>
                    \o <<CharToUpper(Head(groups.script))>>
                    \o ToLowerCase(Tail(groups.script))
             ELSE withLanguage

\* normalizeLanguageCode lowering whatever it is given
NormalizeLanguageCodeLowering(code) == ToLowerCase(code)

\* normalizeLanguageCode(code)
NormalizeLanguageCode(code) ==
    IF ~LanguageCodeRegexTest(code)
    THEN code
    ELSE LET groups == RegexGroups(code)
             withLanguage == ToLowerCase(groups.language)
             withScript ==
                 IF groups.script # Undefined
                 THEN withLanguage \o <<"-">>
                        \o <<CharToUpper(Head(groups.script))>>
                        \o ToLowerCase(Tail(groups.script))
                 ELSE withLanguage
         IN  IF groups.region # Undefined
             THEN withScript \o <<"-">> \o ToUpperCase(groups.region)
             ELSE withScript

\* validateLanguageCode with a pattern that lacks the flag i
ValidateLanguageCodeCaseSensitive(code) ==
    /\ code # <<>>
    /\ LanguageCodeRegexTest(code)
    /\ NormalizeLanguageCode(code) = code

\* validateLanguageCode(code): the empty string is falsy
ValidateLanguageCode(code) == code # <<>> /\ LanguageCodeRegexTest(code)

----------------------------------------------------------------------------
(* ApiKeyManager *)

\* no key: `undefined`
NoKey == "undefined"

\* !(key && key.trim()): no key, the empty string or white space only
IsBlankKey(key) == key \in {NoKey, "", " "}

\* getApiKey as it would be if secure storage were read first and the
\* configuration only when it holds nothing
GetApiKeySecureFirst(secure, config) ==
    IF secure \notin {NoKey, ""}
    THEN [apiKey |-> secure, secure |-> secure, config |-> config]
    ELSE IF ~IsBlankKey(config)
    THEN [apiKey |-> config, secure |-> config, config |-> NoKey]
    ELSE [apiKey |-> NoKey, secure |-> secure, config |-> config]

\* getApiKey() with `secure` in secret storage and `config` in the
\* configuration: the key returned and what the two stores hold afterwards
GetApiKey(secure, config) ==
    IF ~IsBlankKey(config)
    THEN IF config # secure
         THEN [apiKey |-> config, secure |-> config, config |-> NoKey]
         ELSE [apiKey |-> config, secure |-> secure, config |-> config]
    ELSE [apiKey |-> secure, secure |-> secure, config |-> config]

\* clearApiKey(): both stores are emptied
ClearApiKey(secure, config) ==
    [apiKey |-> NoKey, secure |-> NoKey, config |-> NoKey]

\* setApiKey() when the user types `input` (NoKey: the box was dismissed)
SetApiKey(secure, config, input) ==
    IF input \notin {NoKey, ""}
    THEN [apiKey |-> input, secure |-> input, config |-> config]
    ELSE [apiKey |-> input, secure |-> secure, config |-> config]

\* ensureApiKey() when the user answers the warning with `action` and the
\* input box with `input`
EnsureApiKey(secure, config, action, input) ==
    LET got == GetApiKey(secure, config)
    IN  IF got.apiKey \in {NoKey, ""} /\ action = "Set API Key"
        THEN SetApiKey(got.secure, got.config, input)
        ELSE got

----------------------------------------------------------------------------
(* L10nTranslationService.translateJson *)

HttpStatuses == {200, 400, 401, 402, 413, 500, 503}
FinishReasons ==
    {"none", "stop", "length", "contentFilter", "insufficientBalance", "error"}

\* response.ok
ResponseOk(status) == status >= 200 /\ status <= 299

\* the body of an answer: text that is not JSON, JSON without the fields the
\* service reads from an error (errors, data.requiredCharactersForTranslation,
\* errorCode), or JSON with them
ResponseBodies == {"unparsable", "plain", "details"}

\* what the service answers: the status, its body, and for an OK answer the
\* result's finishReason and whether it holds translations
Responses ==
    [status : HttpStatuses, body : ResponseBodies,
     finishReason : FinishReasons, translations : BOOLEAN]

NoKeyMessage == "API Key not set. Please configure your API Key first."
BadRequestMessage ==
    "Invalid request. Please check your input and try again."
ValidationMessage == "errorDetails.join(' ')"
InvalidKeyMessage == "Invalid API Key. Please check your API Key."
BalanceMessage ==
    "Insufficient balance. Please top up your account to continue translating."
RequiredCharactersMessage ==
    "Insufficient balance. You need ${requiredChars} characters to proceed with the translation."
TooLargeMessage == "Request too large. Maximum request size is 10 MB."
ServerErrorMessage ==
    "An internal server error occurred (Error code: unknown). Please try again later."
ServerErrorCodeMessage ==
    "An internal server error occurred (Error code: ${errorData.errorCode}). Please try again later."
GenericMessage ==
    "Failed to translate. Please check your connection and try again."
SyntaxErrorMessage == "SyntaxError"
FinishBalanceMessage ==
    "Insufficient balance. Please visit ${URLS.PRICING} to purchase more characters."
ContentFilterMessage == "Translation blocked by content filter."
FinishErrorMessage == "Translation failed due to an error."

\* the switch on response.status of an answer that is not OK; errorData is
\* null when the body could not be parsed
StatusMessage(response) ==
    CASE response.status = 400 ->
             IF response.body = "details"
             THEN ValidationMessage ELSE BadRequestMessage
      [] response.status = 401 -> InvalidKeyMessage
      [] response.status = 402 ->
             IF response.body = "details"
             THEN RequiredCharactersMessage ELSE BalanceMessage
      [] response.status = 413 -> TooLargeMessage
      [] response.status = 500 ->
             IF response.body = "details"
             THEN ServerErrorCodeMessage ELSE ServerErrorMessage
      [] OTHER -> GenericMessage

\* the switch on result.finishReason: the message thrown, "none" when the
\* result is returned
FinishReasonMessage(finishReason) ==
    CASE finishReason = "insufficientBalance" -> FinishBalanceMessage
      [] finishReason = "contentFilter" -> ContentFilterMessage
      [] finishReason = "error" -> FinishErrorMessage
      [] OTHER -> "none"

Thrown(text) == [threw |-> TRUE, translations |-> FALSE, message |-> text]

\* translateJson as it would be if a result cut short were an error as well
TranslateJsonLengthThrows(apiKey, response) ==
    IF apiKey \in {NoKey, ""}
    THEN Thrown(NoKeyMessage)
    ELSE IF ~ResponseOk(response.status)
    THEN Thrown(StatusMessage(response))
    ELSE IF response.body = "unparsable"
    THEN Thrown(SyntaxErrorMessage)
    ELSE IF response.finishReason = "length"
    THEN Thrown(FinishErrorMessage)
    ELSE IF FinishReasonMessage(response.finishReason) # "none"
    THEN Thrown(FinishReasonMessage(response.finishReason))
    ELSE [threw |-> FALSE, translations |-> response.translations,
          message |-> "none"]

\* translateJson as it would be if it returned every result of an OK answer
TranslateJsonAnyFinishReason(apiKey, response) ==
    IF apiKey \in {NoKey, ""}
    THEN Thrown(NoKeyMessage)
    ELSE IF ~ResponseOk(response.status)
    THEN Thrown(StatusMessage(response))
    ELSE IF response.body = "unparsable"
    THEN Thrown(SyntaxErrorMessage)
    ELSE [threw |-> FALSE, translations |-> response.translations,
          message |-> "none"]

\* translateJson(request) given the key getApiKey returned and the answer of
\* the service: whether it throws and with which message, and whether the
\* result holds translations
TranslateJson(apiKey, response) ==
    IF apiKey \in {NoKey, ""}
    THEN Thrown(NoKeyMessage)
    ELSE IF ~ResponseOk(response.status)
    THEN Thrown(StatusMessage(response))
    ELSE IF response.body = "unparsable"
    THEN Thrown(SyntaxErrorMessage)
    ELSE IF FinishReasonMessage(response.finishReason) # "none"
    THEN Thrown(FinishReasonMessage(response.finishReason))
    ELSE [threw |-> FALSE, translations |-> response.translations,
          message |-> "none"]

\* no answer: the call was not one of translateJson
NoResponse ==
    [status |-> 0, body |-> "none", finishReason |-> "none",
     translations |-> FALSE]

\* no call of the key manager or of the service was made
NoService ==
    [op |-> "none", apiKey |-> NoKey, secure |-> NoKey, config |-> NoKey,
     response |-> NoResponse, threw |-> FALSE, translations |-> FALSE,
     message |-> "none"]

----------------------------------------------------------------------------
(* handleTranslateCommand *)

SelectJsonMessage == "Please select a JSON file to translate."
InvalidLanguageMessage ==
    "Invalid language code format. Please use BCP-47 format."
NoResultsMessage == "No translation results received."
TranslationFailedMessage == "Translation failed"
SavedMessage == "Translation completed"

\* the test of handleTranslateCommand that ends the command with
\* InvalidLanguageMessage
RejectsTargetLanguage(targetLanguage) == ValidateLanguageCode(targetLanguage)

----------------------------------------------------------------------------
(* Bounds and the inputs drawn from them *)

\* only filesystems of at most MaxEntries files and directories are explored
MaxEntries == 3

I18n == <<"i","1","8","n">>
En == <<"e","n">>
EnUpper == <<"E","N">>
Fr == <<"f","r">>
JaJp == <<"J","A","-","j","p">>
Main == <<"m","a","i","n">>
French == <<"f","r","e","n","c","h">>
TxtExt == <<".","t","x","t">>

BasePath == <<I18n>>

\* the source files handed to the resolver; the translate command admits only
\* paths that end in .json
SourcePaths ==
    { <<I18n, En, Main \o JsonExt>>,
      <<I18n, En, En \o JsonExt>>,
      <<I18n, EnUpper \o JsonExt>>,
      <<I18n, Main \o JsonExt>> }

\* the target languages handed to the resolver
TargetLanguages == { Fr, JaJp, En, EnUpper }

\* what other programs may create: a path and whether it is a regular file
OutsideEntries ==
    {[path |-> BasePath, isFile |-> f] : f \in BOOLEAN}
    \cup {[path |-> <<I18n, n>>, isFile |-> f] :
             n \in {Fr, Fr \o JsonExt}, f \in BOOLEAN}
    \cup {[path |-> <<I18n, EnUpper>>, isFile |-> FALSE]}
    \cup {[path |-> <<I18n, n>>, isFile |-> TRUE] :
             n \in {En \o JsonExt, EnUpper \o JsonExt}}

NoStructure == [type |-> "none", basePath |-> <<>>, sourceLanguage |-> Undefined]

\* no call was made before the last one
NoCall == [op |-> "none", src |-> <<>>, tgt |-> <<>>, structure |-> NoStructure,
           normalized |-> Undefined, files |-> {}, dirs |-> {}]

\* no second caller, or one that has not started
NoOther ==
    [op |-> "init", src |-> <<>>, tgt |-> <<>>, structure |-> NoStructure,
     languages |-> <<>>, targetPath |-> <<>>, threw |-> FALSE,
     preFiles |-> {}, preDirs |-> {}, pc |-> "idle", reached |-> {},
     message |-> "none", request |-> Undefined]

EntryCount == Cardinality(files \cup dirs)

----------------------------------------------------------------------------
(* The state machine: calls of the resolver, the caller's write and the    *)
(* rest of the system acting on the filesystem                             *)

InitPure ==
    /\ normalized = Undefined
    /\ valid = FALSE
    /\ earlier = NoCall
    /\ service = NoService
    /\ other = NoOther
    /\ probes = 0

InitCommand ==
    /\ pc = "idle"
    /\ reached = {}
    /\ message = "none"
    /\ request = Undefined
    /\ runs = 0

Init ==
    /\ InitCommand
    /\ InitPure
    /\ secretKey = NoKey
    /\ configKey = NoKey
    /\ files = {}
    /\ dirs = {}
    /\ op = "init"
    /\ src = <<>>
    /\ tgt = <<>>
    /\ structure = NoStructure
    /\ languages = <<>>
    /\ targetPath = <<>>
    /\ threw = FALSE
    /\ preFiles = {}
    /\ preDirs = {}

Returned(name, sourceFilePath, targetLanguage) ==
    /\ op' = name
    /\ src' = sourceFilePath
    /\ tgt' = targetLanguage
    /\ preFiles' = files
    /\ preDirs' = dirs
    /\ UNCHANGED <<cmdVars, pureVars, service, other>>

CallDetectProjectStructure ==
    \E sourceFilePath \in SourcePaths :
        /\ Returned("detectProjectStructure", sourceFilePath, <<>>)
        /\ structure' = DetectProjectStructure(sourceFilePath)
        /\ languages' = <<>>
        /\ targetPath' = <<>>
        /\ threw' = FALSE
        /\ probes' = 0
        /\ UNCHANGED <<files, dirs>>

CallDetectLanguagesFromProject ==
    \E sourceFilePath \in SourcePaths :
        /\ Returned("detectLanguagesFromProject", sourceFilePath, <<>>)
        /\ \E r \in {DetectLanguagesFromProject(sourceFilePath, files, dirs)} :
               /\ threw' = r.threw
               /\ languages' \in IF r.threw THEN {<<>>} ELSE SortedArrays(r.codes)
        /\ structure' = NoStructure
        /\ targetPath' = <<>>
        /\ probes' = 0
        /\ UNCHANGED <<files, dirs>>

CallGenerateTargetFilePath ==
    \E sourceFilePath \in SourcePaths, targetLanguage \in TargetLanguages :
        \E r \in {GenerateTargetFilePath(sourceFilePath, targetLanguage,
                                        files, dirs)} :
            /\ Cardinality(files \cup r.dirs) <= MaxEntries
            /\ Returned("generateTargetFilePath", sourceFilePath, targetLanguage)
            /\ targetPath' = r.path
            /\ threw' = r.threw
            /\ dirs' = r.dirs
            /\ probes' = r.probes
            /\ structure' = NoStructure
            /\ languages' = <<>>
            /\ UNCHANGED files

\* the caller saves the translation at the path it was given:
\* fs.writeFileSync(outputPath, ...)
WriteGeneratedFile ==
    /\ op = "generateTargetFilePath"
    /\ ~threw
    /\ EntryCount < MaxEntries
    /\ Returned("writeFileSync", src, tgt)
    /\ threw' = WriteFails(targetPath, dirs)
    /\ files' = IF WriteFails(targetPath, dirs)
                THEN files
                ELSE files \cup {targetPath}
    /\ UNCHANGED <<dirs, structure, languages, targetPath, probes>>

Outside ==
    /\ op' = "outside"
    /\ src' = <<>>
    /\ tgt' = <<>>
    /\ structure' = NoStructure
    /\ languages' = <<>>
    /\ targetPath' = <<>>
    /\ threw' = FALSE
    /\ preFiles' = files'
    /\ preDirs' = dirs'
    /\ probes' = 0
    /\ UNCHANGED <<cmdVars, pureVars, service, other>>

\* another program creates a file or a directory in an existing directory
OutsideCreate ==
    \E e \in OutsideEntries :
        /\ EntryCount < MaxEntries
        /\ ~ExistsSync(e.path, files, dirs)
        /\ IsDirectory(Dirname(e.path), dirs)
        /\ files' = IF e.isFile THEN files \cup {e.path} ELSE files
        /\ dirs' = IF e.isFile THEN dirs ELSE dirs \cup {e.path}
        /\ Outside

\* another program (or the user) removes a file or an empty directory
OutsideDelete ==
    \E p \in files \cup dirs :
        /\ \A q \in files \cup dirs : Len(q) > 0 => Dirname(q) # p
        /\ files' = files \ {p}
        /\ dirs' = dirs \ {p}
        /\ Outside

Next ==
    \/ CallDetectProjectStructure
    \/ CallDetectLanguagesFromProject
    \/ CallGenerateTargetFilePath
    \/ WriteGeneratedFile
    \/ OutsideCreate
    \/ OutsideDelete

Spec == Init /\ [][Next]_vars

----------------------------------------------------------------------------
(* Two callers of the resolver on one filesystem, with another program     *)
(* creating entries; nothing is removed                                    *)

\* what belongs to the caller that runs: its last call and where it stands
Running ==
    [op |-> op, src |-> src, tgt |-> tgt, structure |-> structure,
     languages |-> languages, targetPath |-> targetPath, threw |-> threw,
     preFiles |-> preFiles, preDirs |-> preDirs, pc |-> pc,
     reached |-> reached, message |-> message, request |-> request]

\* the caller that runs is set aside and the other one goes on from where it
\* stood: the two take turns in any order, each step of one being whole
Yield ==
    /\ other' = Running
    /\ op' = other.op
    /\ src' = other.src
    /\ tgt' = other.tgt
    /\ structure' = other.structure
    /\ languages' = other.languages
    /\ targetPath' = other.targetPath
    /\ threw' = other.threw
    /\ preFiles' = other.preFiles
    /\ preDirs' = other.preDirs
    /\ pc' = other.pc
    /\ reached' = other.reached
    /\ message' = other.message
    /\ request' = other.request
    /\ UNCHANGED <<files, dirs, secretKey, configKey, runs, pureVars, service,
                   probes>>

\* another program creates a file or a directory while the callers stand
\* where they are
ThirdPartyCreate ==
    \E e \in OutsideEntries :
        /\ EntryCount < MaxEntries
        /\ ~ExistsSync(e.path, files, dirs)
        /\ IsDirectory(Dirname(e.path), dirs)
        /\ files' = IF e.isFile THEN files \cup {e.path} ELSE files
        /\ dirs' = IF e.isFile THEN dirs ELSE dirs \cup {e.path}
        /\ UNCHANGED <<op, src, tgt, structure, languages, targetPath, threw,
                       preFiles, preDirs, cmdVars, pureVars, callVars>>

\* what the two callers translate: a file named after its language and a
\* file in a directory named after its language, into one language
RaceSourcePaths == { <<I18n, EnUpper \o JsonExt>>, <<I18n, En, Main \o JsonExt>> }
RaceLanguages == { Fr }

\* the caller that runs calls generateTargetFilePath
CallerGenerate ==
    \E sourceFilePath \in RaceSourcePaths, targetLanguage \in RaceLanguages :
        \E r \in {GenerateTargetFilePath(sourceFilePath, targetLanguage,
                                        files, dirs)} :
            /\ Cardinality(files \cup r.dirs) <= MaxEntries
            /\ Returned("generateTargetFilePath", sourceFilePath, targetLanguage)
            /\ targetPath' = r.path
            /\ threw' = r.threw
            /\ dirs' = r.dirs
            /\ probes' = r.probes
            /\ structure' = NoStructure
            /\ languages' = <<>>
            /\ UNCHANGED files

NextRace ==
    \/ CallerGenerate
    \/ WriteGeneratedFile
    \/ Yield
    \/ ThirdPartyCreate

SpecRace == Init /\ [][NextRace]_vars

----------------------------------------------------------------------------
(* The language-code methods applied to the codes a user can type *)

\* a typed code holds at most MaxSubtags hyphen-separated parts
MaxSubtags == 3

Zh == <<"z","h">>
Deu == <<"d","e","u">>
HansLower == <<"h","a","n","s">>
HansUpper == <<"H","A","N","S">>
Cn == <<"c","n">>
CnUpper == <<"C","N">>
Region419 == <<"4","1","9">>
Invalid == <<"i","n","v","a","l","i","d">>

\* the parts typed codes are made of
TagWords ==
    { <<>>, <<"x">>, EnUpper, Zh, Deu, HansLower, HansUpper, Cn, CnUpper,
      Region419, <<"4","1">>, Invalid }

\* the codes of n parts
RECURSIVE TagsOf(_)
TagsOf(n) ==
    IF n = 1
    THEN TagWords
    ELSE { t \o <<"-">> \o w : t \in TagsOf(n - 1), w \in TagWords }

Tags == UNION { TagsOf(n) : n \in 1..MaxSubtags }

\* the last call as the next call records it
LastCall ==
    [op |-> op, src |-> src, tgt |-> tgt, structure |-> structure,
     normalized |-> normalized, files |-> preFiles, dirs |-> preDirs]

InitTags ==
    /\ InitCommand
    /\ InitPure
    /\ secretKey = NoKey
    /\ configKey = NoKey
    /\ files = {}
    /\ dirs = {}
    /\ op = "init"
    /\ src = <<>>
    /\ tgt \in Tags
    /\ structure = NoStructure
    /\ languages = <<>>
    /\ targetPath = <<>>
    /\ threw = FALSE
    /\ preFiles = {}
    /\ preDirs = {}

\* validateLanguageCode(code) on the code at hand
CallValidateLanguageCode ==
    /\ op' = "validateLanguageCode"
    /\ valid' = ValidateLanguageCode(tgt)
    /\ earlier' = LastCall
    /\ threw' = FALSE
    /\ UNCHANGED <<files, dirs, src, tgt, structure, languages, targetPath,
                   preFiles, preDirs, normalized, cmdVars, callVars>>

\* normalizeLanguageCode(code) on the code at hand or on the code the method
\* returned before
CallNormalizeLanguageCode ==
    \E code \in {tgt, normalized} \ {Undefined} :
        /\ op' = "normalizeLanguageCode"
        /\ tgt' = code
        /\ normalized' = NormalizeLanguageCode(code)
        /\ earlier' = LastCall
        /\ threw' = FALSE
        /\ UNCHANGED <<files, dirs, src, structure, languages, targetPath,
                       preFiles, preDirs, valid, cmdVars, callVars>>

NextTags ==
    \/ CallValidateLanguageCode
    \/ CallNormalizeLanguageCode

SpecTags == InitTags /\ [][NextTags]_vars

----------------------------------------------------------------------------
(* The resolver applied to one path, of any extension, while the filesystem *)
(* changes around it                                                        *)

\* the paths handed to the resolver: .json files, files of another extension
\* or of none, a file named .json, a file in the root directory
AnySourcePaths ==
    SourcePaths
    \cup { <<I18n, En, Main \o TxtExt>>,
           <<I18n, En \o TxtExt>>,
           <<I18n, Main \o TxtExt>>,
           <<I18n, En>>,
           <<I18n, JsonExt>>,
           <<En \o JsonExt>> }

InitPaths ==
    /\ InitCommand
    /\ InitPure
    /\ secretKey = NoKey
    /\ configKey = NoKey
    /\ files = {}
    /\ dirs = {}
    /\ op = "init"
    /\ src \in AnySourcePaths
    /\ tgt = <<>>
    /\ structure = NoStructure
    /\ languages = <<>>
    /\ targetPath = <<>>
    /\ threw = FALSE
    /\ preFiles = {}
    /\ preDirs = {}

\* detectProjectStructure(sourceFilePath) on the path at hand
DetectPath ==
    /\ op' = "detectProjectStructure"
    /\ structure' = DetectProjectStructure(src)
    /\ earlier' = LastCall
    /\ tgt' = <<>>
    /\ targetPath' = <<>>
    /\ threw' = FALSE
    /\ preFiles' = files
    /\ preDirs' = dirs
    /\ probes' = 0
    /\ UNCHANGED <<files, dirs, src, languages, normalized, valid, cmdVars,
                   service, other>>

\* generateTargetFilePath(sourceFilePath, targetLanguage) on the path at hand
GeneratePath ==
    \E targetLanguage \in {Fr, JaJp} :
        \E r \in {GenerateTargetFilePath(src, targetLanguage, files, dirs)} :
            /\ Cardinality(files \cup r.dirs) <= MaxEntries
            /\ op' = "generateTargetFilePath"
            /\ tgt' = targetLanguage
            /\ targetPath' = r.path
            /\ threw' = r.threw
            /\ dirs' = r.dirs
            /\ structure' = NoStructure
            /\ earlier' = NoCall
            /\ preFiles' = files
            /\ preDirs' = dirs
            /\ probes' = r.probes
            /\ UNCHANGED <<files, src, languages, normalized, valid, cmdVars,
                           service, other>>

\* the file at the path is saved, its directories created as needed
SavePath ==
    /\ ~ExistsSync(src, files, dirs)
    /\ ~MkdirFails(Dirname(src), files)
    /\ Cardinality(files \cup MkdirSync(Dirname(src), dirs)) < MaxEntries
    /\ files' = files \cup {src}
    /\ dirs' = MkdirSync(Dirname(src), dirs)
    /\ UNCHANGED <<op, src, tgt, structure, languages, targetPath, threw,
                   preFiles, preDirs, cmdVars, pureVars, callVars>>

\* a file or an empty directory is removed
RemovePath ==
    \E p \in files \cup dirs :
        /\ \A q \in files \cup dirs : Len(q) > 0 => Dirname(q) # p
        /\ files' = files \ {p}
        /\ dirs' = dirs \ {p}
        /\ UNCHANGED <<op, src, tgt, structure, languages, targetPath, threw,
                       preFiles, preDirs, cmdVars, pureVars, callVars>>

NextPaths ==
    \/ DetectPath
    \/ GeneratePath
    \/ WriteGeneratedFile
    \/ SavePath
    \/ RemovePath

SpecPaths == InitPaths /\ [][NextPaths]_vars

----------------------------------------------------------------------------
(* The translate command: one invocation at a time, each step running from *)
(* one await of handleTranslateCommand to the next                         *)

\* how many times the command is invoked
MaxRuns == 2

\* no file was chosen and no editor is active
NoUri == <<Undefined>>

\* the file the command is invoked on
UriChoices == SourcePaths \cup {<<I18n, Main \o TxtExt>>, NoUri}

\* what the user can type where a language is asked for
TypedLanguages == {Fr, JaJp, French, <<"x">>}

\* the keys the stores can hold and the user can type
StoredKeys == {NoKey, "k1"}
ConfiguredKeys == {NoKey, " ", "k1", "k2"}
TypedKeys == {NoKey, "k2"}

\* a project as it lies on disk when the command is first invoked: nothing,
\* or a source file in its directories
Fixtures ==
    {[files |-> {}, dirs |-> {}]}
    \cup {[files |-> {p}, dirs |-> Ancestors(Dirname(p))] : p \in SourcePaths}

InitCmd ==
    /\ InitCommand
    /\ InitPure
    /\ secretKey \in StoredKeys
    /\ configKey \in ConfiguredKeys
    /\ \E fx \in Fixtures : files = fx.files /\ dirs = fx.dirs
    /\ op = "init"
    /\ src = <<>>
    /\ tgt = <<>>
    /\ structure = NoStructure
    /\ languages = <<>>
    /\ targetPath = <<>>
    /\ threw = FALSE
    /\ preFiles = {}
    /\ preDirs = {}

\* the answers of the service the command is run against: every way
\* translateJson ends, on two statuses and one body
CommandResponses ==
    {r \in Responses : r.status \in {200, 401} /\ r.body = "plain"}

\* fileUri && fileUri.fsPath.endsWith(".json"), as if any file were admitted
SelectedAnyFile(fileUri) == fileUri # NoUri

\* fileUri && fileUri.fsPath.endsWith(".json")
SelectedJsonFile(fileUri) ==
    fileUri # NoUri /\ EndsWith(Basename(fileUri), JsonExt)

\* the record of a call of the key manager
KeyCall(name, secure, config, k) ==
    [op |-> name, apiKey |-> k.apiKey, secure |-> secure, config |-> config,
     response |-> NoResponse, threw |-> FALSE, translations |-> FALSE,
     message |-> "none"]

\* the record of a call of translateJson
ServiceCall(secure, config, k, response, t) ==
    [op |-> "translateJson", apiKey |-> k.apiKey, secure |-> secure,
     config |-> config, response |-> response, threw |-> t.threw,
     translations |-> t.translations, message |-> t.message]

\* handleTranslateCommand ends
Ends(shown) ==
    /\ pc' = "done"
    /\ message' = shown

\* from the invocation to the await of selectTargetLanguage: ensureApiKey, the
\* check of the file and detectLanguagesFromProject
CmdInvoke ==
    \E fileUri \in UriChoices,
       action \in {"Set API Key", "Get API Key", "dismissed"},
       input \in TypedKeys :
        \E k \in {EnsureApiKey(secretKey, configKey, action, input)} :
            /\ pc = "idle"
            /\ runs < MaxRuns
            /\ runs' = runs + 1
            /\ secretKey' = k.secure
            /\ configKey' = k.config
            /\ src' = fileUri
            /\ service' = KeyCall("ensureApiKey", secretKey, configKey, k)
            /\ UNCHANGED <<other, probes>>
            /\ IF k.apiKey \in {NoKey, ""}
               THEN /\ Ends("none")
                    /\ reached' = {"ensureApiKey"}
                    /\ UNCHANGED languages
               ELSE IF ~SelectedJsonFile(fileUri)
               THEN /\ Ends(SelectJsonMessage)
                    /\ reached' = {"ensureApiKey"}
                    /\ UNCHANGED languages
               ELSE /\ pc' = "selectTargetLanguage"
                    /\ message' = "none"
                    /\ reached' = {"ensureApiKey", "detectLanguagesFromProject",
                                   "selectTargetLanguage"}
                    /\ languages' \in SortedArrays(
                           DetectedLanguageCodes(fileUri, files, dirs))
            /\ preFiles' = files
            /\ preDirs' = dirs
            /\ UNCHANGED <<files, dirs, tgt, targetPath, request, op,
                           structure, threw, pureVars>>

\* selectTargetLanguage resolves with a detected language, a language found
\* by the search, typed text, or nothing; then, up to the await of
\* translateJson: the validation and the start of performTranslation
CmdSelectTargetLanguage ==
    \E targetLanguage \in {languages[i] : i \in DOMAIN languages}
                              \cup TypedLanguages \cup {Undefined, <<>>} :
        /\ pc = "selectTargetLanguage"
        /\ tgt' = targetLanguage
        /\ IF targetLanguage \in {Undefined, <<>>}
           THEN /\ Ends("none")
                /\ UNCHANGED <<reached, request>>
           ELSE IF RejectsTargetLanguage(targetLanguage)
           THEN /\ Ends(InvalidLanguageMessage)
                /\ UNCHANGED <<reached, request>>
           ELSE IF src \notin files
           THEN \* fs.readFileSync throws
                /\ Ends(TranslationFailedMessage)
                /\ reached' = reached \cup {"performTranslation"}
                /\ UNCHANGED request
           ELSE /\ pc' = "translateJson"
                /\ message' = "none"
                /\ reached' = reached \cup {"performTranslation", "translateJson"}
                /\ request' = NormalizeLanguageCode(targetLanguage)
        /\ UNCHANGED <<files, dirs, src, languages, targetPath, secretKey,
                       configKey, runs, coreVars, pureVars, callVars>>

\* translateJson resolves or rejects; on a result with translations the path
\* is generated and the file written before the next await
CmdTranslateJson ==
    \E response \in CommandResponses :
        \E k \in {GetApiKey(secretKey, configKey)} :
        \E t \in {TranslateJson(k.apiKey, response)} :
        \E r \in {GenerateTargetFilePath(src, tgt, files, dirs)} :
            /\ pc = "translateJson"
            /\ secretKey' = k.secure
            /\ configKey' = k.config
            /\ service' = ServiceCall(secretKey, configKey, k, response, t)
            /\ UNCHANGED <<other, probes>>
            /\ IF t.threw
               THEN /\ Ends(TranslationFailedMessage)
                    /\ UNCHANGED <<files, dirs, targetPath, reached>>
               ELSE IF ~t.translations
               THEN /\ Ends(NoResultsMessage)
                    /\ UNCHANGED <<files, dirs, targetPath, reached>>
               ELSE IF r.threw
               THEN /\ Ends(TranslationFailedMessage)
                    /\ reached' = reached \cup {"generateTargetFilePath"}
                    /\ UNCHANGED <<files, dirs, targetPath>>
               ELSE IF WriteFails(r.path, r.dirs)
               THEN /\ Ends(TranslationFailedMessage)
                    /\ reached' = reached \cup {"generateTargetFilePath",
                                                 "writeFileSync"}
                    /\ dirs' = r.dirs
                    /\ targetPath' = r.path
                    /\ UNCHANGED files
               ELSE /\ Ends(SavedMessage)
                    /\ reached' = reached \cup {"generateTargetFilePath",
                                                 "writeFileSync"}
                    /\ dirs' = r.dirs
                    /\ files' = files \cup {r.path}
                    /\ targetPath' = r.path
            /\ UNCHANGED <<src, tgt, languages, request, runs, coreVars,
                           pureVars>>

\* the command has returned: it can be invoked again
CmdReturn ==
    /\ pc = "done"
    /\ pc' = "idle"
    /\ reached' = {}
    /\ message' = "none"
    /\ request' = Undefined
    /\ src' = <<>>
    /\ tgt' = <<>>
    /\ languages' = <<>>
    /\ targetPath' = <<>>
    /\ service' = NoService
    /\ UNCHANGED <<other, probes>>
    /\ UNCHANGED <<files, dirs, secretKey, configKey, runs, coreVars,
                   pureVars>>

NextCmd ==
    \/ CmdInvoke
    \/ CmdSelectTargetLanguage
    \/ CmdTranslateJson
    \/ CmdReturn

SpecCmd == InitCmd /\ [][NextCmd]_vars

----------------------------------------------------------------------------
(* Two invocations of the translate command in one extension host: each    *)
(* runs from one await to the next, and at an await the other may go on    *)

NextTwo ==
    \/ CmdInvoke
    \/ CmdSelectTargetLanguage
    \/ CmdTranslateJson
    \/ CmdReturn
    \/ Yield

\* the key was stored before either invocation
InitTwo ==
    /\ InitCommand
    /\ InitPure
    /\ secretKey = "k1"
    /\ configKey = NoKey
    /\ \E fx \in Fixtures : files = fx.files /\ dirs = fx.dirs
    /\ op = "init"
    /\ src = <<>>
    /\ tgt = <<>>
    /\ structure = NoStructure
    /\ languages = <<>>
    /\ targetPath = <<>>
    /\ threw = FALSE
    /\ preFiles = {}
    /\ preDirs = {}

SpecTwo == InitTwo /\ [][NextTwo]_vars

----------------------------------------------------------------------------
(* The key manager and the translation service called on their own, with   *)
(* the user editing the settings in between                                *)

\* the user writes the key in the settings, or removes it
ConfigureApiKey ==
    \E key \in ConfiguredKeys :
        /\ key # configKey
        /\ configKey' = key
        /\ service' = NoService
        /\ UNCHANGED <<files, dirs, op, src, tgt, structure, languages,
                       targetPath, threw, preFiles, preDirs, pc, reached,
                       message, request, secretKey, runs, pureVars, other,
                   probes>>

\* a call of the key manager ended: what the stores hold now
KeyManagerReturned(name, k) ==
    /\ service' = KeyCall(name, secretKey, configKey, k)
    /\ secretKey' = k.secure
    /\ configKey' = k.config
    /\ UNCHANGED <<op, src, tgt, structure, languages, targetPath, threw,
                   preFiles, preDirs, pc, reached, message, request, runs,
                   pureVars, other,
                   probes>>

CallGetApiKey ==
    /\ KeyManagerReturned("getApiKey", GetApiKey(secretKey, configKey))
    /\ UNCHANGED <<files, dirs>>

CallSetApiKey ==
    \E input \in TypedKeys :
        /\ KeyManagerReturned("setApiKey",
                              SetApiKey(secretKey, configKey, input))
        /\ UNCHANGED <<files, dirs>>

CallClearApiKey ==
    /\ KeyManagerReturned("clearApiKey", ClearApiKey(secretKey, configKey))
    /\ UNCHANGED <<files, dirs>>

\* translateJson(request) against an answer of the service
CallTranslateJson ==
    \E response \in Responses :
        \E k \in {GetApiKey(secretKey, configKey)} :
            /\ service' = ServiceCall(secretKey, configKey, k, response,
                                      TranslateJson(k.apiKey, response))
            /\ secretKey' = k.secure
            /\ configKey' = k.config
            /\ UNCHANGED <<files, dirs, op, src, tgt, structure, languages,
                           targetPath, threw, preFiles, preDirs, pc, reached,
                           message, request, runs, pureVars, other,
                   probes>>

InitService ==
    /\ InitCommand
    /\ InitPure
    /\ secretKey \in StoredKeys
    /\ configKey \in ConfiguredKeys
    /\ files = {}
    /\ dirs = {}
    /\ op = "init"
    /\ src = <<>>
    /\ tgt = <<>>
    /\ structure = NoStructure
    /\ languages = <<>>
    /\ targetPath = <<>>
    /\ threw = FALSE
    /\ preFiles = {}
    /\ preDirs = {}

NextService ==
    \/ ConfigureApiKey
    \/ CallGetApiKey
    \/ CallSetApiKey
    \/ CallClearApiKey
    \/ CallTranslateJson

SpecService == InitService /\ [][NextService]_vars

TypeOK ==
    /\ \A p \in files \cup dirs : Len(p) > 0 /\ IsDirectory(Dirname(p), dirs)
    /\ files \cap dirs = {}

----------------------------------------------------------------------------
(* What the claims speak of, stated on paths and on the filesystem *)

\* a file's base name without its extension
FileStem(p) == BasenameSuffix(p, Extname(p))

ParentIsTag(p) == LanguageCodeRegexTest(Basename(Dirname(p)))
StemIsTag(p) == LanguageCodeRegexTest(FileStem(p))

\* the path a target is given before collisions are resolved
ExpectedTarget(p, lang) ==
    IF ParentIsTag(p)
    THEN Join(Join(Dirname(Dirname(p)), lang), Basename(p))
    ELSE IF StemIsTag(p)
    THEN Join(Dirname(p), lang \o Extname(p))
    ELSE Join(Dirname(p), FileStem(p) \o <<".">> \o lang \o Extname(p))

\* `name (k).ext` beside p
Numbered(p, k) ==
    Join(Dirname(p),
         FileStem(p) \o <<" ", "(">> \o NumberToString(k) \o <<")">> \o Extname(p))

GenerateReturned == op = "generateTargetFilePath" /\ ~threw

\* the names a language scan from p is to report, the source language included
ExpectedCandidates(p) ==
    IF ParentIsTag(p)
    THEN { Basename(q) : q \in { d \in dirs :
               /\ Len(d) > 0
               /\ Dirname(d) = Dirname(Dirname(p))
               /\ LanguageCodeRegexTest(Basename(d)) } }
    ELSE IF StemIsTag(p)
    THEN { FileStem(q) : q \in { f \in files :
               /\ Dirname(f) = Dirname(p)
               /\ Extname(f) = JsonExt
               /\ LanguageCodeRegexTest(FileStem(f)) } }
    ELSE {}

ExpectedSourceLanguage(p) ==
    IF ParentIsTag(p) THEN Basename(Dirname(p))
    ELSE IF StemIsTag(p) THEN FileStem(p)
    ELSE Undefined

\* the alphabet of language codes in dictionary order, letters in lower case
DictionaryOrder == <<"-">> \o DigitChars \o LowerLetters

DictionaryRank(c) ==
    IF \E i \in DOMAIN DictionaryOrder : DictionaryOrder[i] = CharToLower(c)
    THEN CHOOSE i \in DOMAIN DictionaryOrder : DictionaryOrder[i] = CharToLower(c)
    ELSE 0

\* a comes before b in the dictionary, or differs from b in case only
RECURSIVE PrecedesIgnoringCase(_, _)
PrecedesIgnoringCase(a, b) ==
    IF a = <<>> THEN TRUE
    ELSE IF b = <<>> THEN FALSE
    ELSE IF DictionaryRank(Head(a)) # DictionaryRank(Head(b))
    THEN DictionaryRank(Head(a)) < DictionaryRank(Head(b))
    ELSE PrecedesIgnoringCase(Tail(a), Tail(b))

\* the directory a language scan from p reads
ExpectedBasePath(p) ==
    IF ParentIsTag(p) THEN Dirname(Dirname(p)) ELSE Dirname(p)

\* the hyphen-separated subtags of a string
RECURSIVE Subtags(_)
Subtags(s) ==
    LET hyphens == {i \in DOMAIN s : s[i] = "-"}
        first == CHOOSE i \in hyphens : \A j \in hyphens : i <= j
    IN  IF hyphens = {}
        THEN <<s>>
        ELSE <<SubSeq(s, 1, first - 1)>> \o Subtags(SubSeq(s, first + 1, Len(s)))

AllLetters(w) == \A i \in DOMAIN w : w[i] \in LowerSet \cup UpperSet
AllDigits(w) == \A i \in DOMAIN w : w[i] \in DigitSet

IsPrimaryLanguage(w) == Len(w) \in {2, 3} /\ AllLetters(w)
IsScript(w) == Len(w) = 4 /\ AllLetters(w)
IsRegion(w) == \/ Len(w) \in {2, 3} /\ AllLetters(w)
               \/ Len(w) = 3 /\ AllDigits(w)

\* the grammar of language tags, case ignored: language, then optionally a
\* script, then optionally a region
IsLanguageTag(s) ==
    LET parts == Subtags(s)
    IN  /\ Len(parts) \in 1..3
        /\ IsPrimaryLanguage(parts[1])
        /\ Len(parts) = 2 => IsScript(parts[2]) \/ IsRegion(parts[2])
        /\ Len(parts) = 3 => IsScript(parts[2]) /\ IsRegion(parts[3])

RECURSIVE JoinWithHyphens(_)
JoinWithHyphens(parts) ==
    IF Len(parts) = 1
    THEN parts[1]
    ELSE parts[1] \o <<"-">> \o JoinWithHyphens(Tail(parts))

\* the canonical casing of a language tag: language in lower case, a script
\* capitalised, a region in upper case
CanonicalTag(s) ==
    LET parts == Subtags(s)
    IN  JoinWithHyphens(
            [i \in DOMAIN parts |->
                IF i = 1 THEN ToLowerCase(parts[i])
                ELSE IF Len(parts[i]) = 4
                THEN <<CharToUpper(parts[i][1])>> \o ToLowerCase(Tail(parts[i]))
                ELSE ToUpperCase(parts[i])])

\* p when its extension is .json, else p with .json put after its whole name
WithJsonExtension(p) ==
    IF Extname(p) = JsonExt THEN p ELSE Join(Dirname(p), Basename(p) \o JsonExt)

\* the path built from a detection result and the file it was made for
RebuiltPath(info, p) ==
    IF info.type = FolderBased
    THEN Join(Join(info.basePath, info.sourceLanguage), Basename(p))
    ELSE IF info.type = FileBased
    THEN Join(info.basePath, info.sourceLanguage \o Extname(p))
    ELSE Join(info.basePath, Basename(p))

----------------------------------------------------------------------------
(* Claims *)

\* C1: detectProjectStructure returns FolderBased exactly when the name of the
\* directory holding the file is a language tag (whatever the file stem is),
\* FileBased exactly when it is not and the file stem is a tag, and Unknown
\* exactly when neither is; it always returns one of the three kinds.
C1_DetectionPriority ==
    op = "detectProjectStructure" =>
        /\ structure.type \in {FolderBased, FileBased, Unknown}
        /\ (structure.type = FolderBased) <=> ParentIsTag(src)
        /\ (structure.type = FileBased) <=> (~ParentIsTag(src) /\ StemIsTag(src))
        /\ (structure.type = Unknown) <=> (~ParentIsTag(src) /\ ~StemIsTag(src))

\* locales/en/en.json: folder name and file stem are both tags
C1_Witness ==
    /\ op = "detectProjectStructure"
    /\ src = <<I18n, En, En \o JsonExt>>
    /\ structure.type = FolderBased

\* C2: FolderBased gives basePath = the directory above the parent and
\* sourceLanguage = the parent's name; FileBased gives basePath = the
\* containing directory and sourceLanguage = the file stem; Unknown gives
\* basePath = the containing directory and no sourceLanguage.  The source
\* language is present iff the kind is not Unknown, in its original casing.
C2_DetectionResult ==
    op = "detectProjectStructure" =>
        /\ structure.type = FolderBased =>
              /\ structure.basePath = Dirname(Dirname(src))
              /\ structure.sourceLanguage = Basename(Dirname(src))
        /\ structure.type = FileBased =>
              /\ structure.basePath = Dirname(src)
              /\ structure.sourceLanguage = FileStem(src)
        /\ structure.type = Unknown =>
              /\ structure.basePath = Dirname(src)
              /\ structure.sourceLanguage = Undefined
        /\ (structure.sourceLanguage # Undefined) <=> (structure.type # Unknown)

\* i18n/EN.json: the upper-case stem comes back as it is
C2_Witness ==
    /\ op = "detectProjectStructure"
    /\ src = <<I18n, EnUpper \o JsonExt>>
    /\ structure.type = FileBased
    /\ structure.sourceLanguage = EnUpper

\* C3: for a FolderBased source, when nothing exists at
\* basePath/targetLanguage/<source file name>, generateTargetFilePath returns
\* that path, with targetLanguage as supplied, and the directory
\* basePath/targetLanguage exists when the call returns.
C3_FolderBasedTarget ==
    ( /\ GenerateReturned
      /\ ParentIsTag(src)
      /\ ~ExistsSync(ExpectedTarget(src, tgt), preFiles, preDirs) )
    => /\ targetPath = <<I18n, tgt, Basename(src)>>
       /\ <<I18n, tgt>> \in dirs

\* C4: for a FileBased source, when nothing exists at
\* basePath/{targetLanguage}{sourceExtension}, generateTargetFilePath returns
\* that path, which lies in the source's directory, and creates nothing.
C4_FileBasedTarget ==
    ( /\ op = "generateTargetFilePath"
      /\ ~ParentIsTag(src)
      /\ StemIsTag(src)
      /\ ~ExistsSync(ExpectedTarget(src, tgt), preFiles, preDirs) )
    => /\ ~threw
       /\ targetPath = Join(Dirname(src), tgt \o Extname(src))
       /\ Dirname(targetPath) = Dirname(src)
       /\ files = preFiles
       /\ dirs = preDirs

\* i18n/EN.json to "fr" gives i18n/fr.json
C4_Witness ==
    /\ op = "generateTargetFilePath"
    /\ src = <<I18n, EnUpper \o JsonExt>>
    /\ tgt = Fr
    /\ targetPath = <<I18n, Fr \o JsonExt>>

\* C5: for a source of Unknown structure, when nothing exists at
\* basePath/{sourceStem}.{targetLanguage}{sourceExtension},
\* generateTargetFilePath returns that path, in the source's directory.
C5_UnknownTarget ==
    ( /\ op = "generateTargetFilePath"
      /\ ~ParentIsTag(src)
      /\ ~StemIsTag(src)
      /\ ~ExistsSync(ExpectedTarget(src, tgt), preFiles, preDirs) )
    => /\ ~threw
       /\ targetPath =
              Join(Dirname(src), FileStem(src) \o <<".">> \o tgt \o Extname(src))
       /\ Dirname(targetPath) = Dirname(src)

\* i18n/main.json to "fr" gives i18n/main.fr.json
C5_Witness ==
    /\ op = "generateTargetFilePath"
    /\ src = <<I18n, Main \o JsonExt>>
    /\ tgt = Fr
    /\ targetPath = <<I18n, Main \o <<".">> \o Fr \o JsonExt>>

C7_ReturnedPathIsFree ==
    GenerateReturned => ~ExistsSync(targetPath, files, dirs)

\* locales/fr/main.json is taken: the numbered sibling is returned
C7_Witness ==
    /\ GenerateReturned
    /\ src = <<I18n, En, Main \o JsonExt>>
    /\ <<I18n, Fr, Main \o JsonExt>> \in files
    /\ targetPath = <<I18n, Fr, Main \o <<" ", "(", "1", ")">> \o JsonExt>>

\* C9: detectLanguagesFromProject returns, without duplicates and in their
\* on-disk casing, the tag-named subdirectories of basePath (FolderBased), the
\* stems of the tag-named .json files of basePath (FileBased) or nothing
\* (Unknown), the source language string left out.
C9_DetectedLanguages ==
    op = "detectLanguagesFromProject" =>
        /\ {languages[i] : i \in DOMAIN languages}
               = ExpectedCandidates(src) \ {ExpectedSourceLanguage(src)}
        /\ \A i, j \in DOMAIN languages : languages[i] = languages[j] => i = j

\* a regular file named fr beside the directory JA-jp: only JA-jp is reported
C9_Witness ==
    /\ op = "detectLanguagesFromProject"
    /\ src = <<I18n, En, Main \o JsonExt>>
    /\ <<I18n, Fr>> \in files
    /\ languages = <<JaJp>>

\* C10: no entry returned by detectLanguagesFromProject equals the source
\* language when case is ignored.
C10_SourceLanguageExcludedIgnoringCase ==
    op = "detectLanguagesFromProject" =>
        \A i \in DOMAIN languages :
            ToLowerCase(languages[i]) # ToLowerCase(ExpectedSourceLanguage(src))

\* C8: once a target language is chosen, the command goes on to
\* performTranslation when validateLanguageCode accepts it, and otherwise ends
\* with the invalid-format message without reaching performTranslation, the
\* translation request, generateTargetFilePath or the file write.
C8_ValidatorGuardsTranslation ==
    ( /\ "selectTargetLanguage" \in reached
      /\ pc # "selectTargetLanguage"
      /\ tgt \notin {Undefined, <<>>} )
    => IF ValidateLanguageCode(tgt)
       THEN "performTranslation" \in reached
       ELSE /\ message = InvalidLanguageMessage
            /\ reached \cap {"performTranslation", "translateJson",
                             "generateTargetFilePath", "writeFileSync"} = {}

\* C11: the sequence detectLanguagesFromProject returns is ordered ignoring
\* case: each entry precedes or equals, case ignored, the entry after it.
C11_SortedIgnoringCase ==
    op = "detectLanguagesFromProject" =>
        \A i \in 1..(Len(languages) - 1) :
            PrecedesIgnoringCase(languages[i], languages[i + 1])

\* directories fr and JA-jp beside en: fr comes first although "J" has the
\* smaller code unit
C11_Witness ==
    /\ op = "detectLanguagesFromProject"
    /\ src = <<I18n, En, Main \o JsonExt>>
    /\ languages = <<Fr, JaJp>>

\* C12: when the directory basePath cannot be read (it is missing, or is no
\* directory), detectLanguagesFromProject returns the empty list and throws
\* nothing, for FolderBased and for FileBased sources.
C12_ScanFailureYieldsEmpty ==
    ( /\ op = "detectLanguagesFromProject"
      /\ ParentIsTag(src) \/ StemIsTag(src)
      /\ ~IsDirectory(ExpectedBasePath(src), dirs) )
    => /\ ~threw
       /\ languages = <<>>

\* i18n is a regular file when the languages beside i18n/EN.json are asked for
C12_Witness ==
    /\ op = "detectLanguagesFromProject"
    /\ src = <<I18n, EnUpper \o JsonExt>>
    /\ <<I18n>> \in files
    /\ ~threw
    /\ languages = <<>>

\* C13: validateLanguageCode returns true exactly for the non-empty strings
\* that, case ignored, are a 2-3 letter language, then optionally a hyphen and
\* a 4-letter script, then optionally a hyphen and a 2-3 letter or 3-digit
\* region, with nothing else; so it returns false for the empty string, one
\* letter, a 7-letter word and a region placed before a script.
C13_ValidateMatchesGrammar ==
    op = "validateLanguageCode" =>
        /\ valid <=> (tgt # <<>> /\ IsLanguageTag(tgt))
        /\ tgt \in {<<>>, <<"x">>, Invalid,
                     Zh \o <<"-">> \o CnUpper \o <<"-">> \o HansLower}
              => ~valid

\* zh-HANS-cn is accepted whatever its casing
C13_Witness ==
    /\ op = "validateLanguageCode"
    /\ tgt = Zh \o <<"-">> \o HansUpper \o <<"-">> \o Cn
    /\ valid

\* C14: for a string that matches the grammar, normalizeLanguageCode returns
\* the canonical form: language lower-cased, script capitalised, region
\* upper-cased, joined by hyphens, with the input's letters in the input's
\* order.
C14_NormalizeIsCanonical ==
    (op = "normalizeLanguageCode" /\ IsLanguageTag(tgt)) =>
        /\ normalized = CanonicalTag(tgt)
        /\ ToLowerCase(normalized) = ToLowerCase(tgt)

\* zh-HANS-cn becomes zh-Hans-CN
C14_Witness ==
    /\ op = "normalizeLanguageCode"
    /\ tgt = Zh \o <<"-">> \o HansUpper \o <<"-">> \o Cn
    /\ normalized = Zh \o <<"-", "H", "a", "n", "s", "-">> \o CnUpper

\* C15: normalizing the result of normalizing a code that validateLanguageCode
\* accepts returns that result again.
C15_NormalizeIdempotent ==
    ( /\ op = "normalizeLanguageCode"
      /\ earlier.op = "normalizeLanguageCode"
      /\ tgt = earlier.normalized
      /\ ValidateLanguageCode(earlier.tgt) )
    => normalized = tgt

\* EN-cn was normalized to en-CN, and en-CN then to itself
C15_Witness ==
    /\ op = "normalizeLanguageCode"
    /\ earlier.op = "normalizeLanguageCode"
    /\ earlier.tgt = EnUpper \o <<"-">> \o Cn
    /\ tgt = En \o <<"-">> \o CnUpper
    /\ tgt = earlier.normalized
    /\ normalized = tgt

\* C16: normalizeLanguageCode returns a string that validateLanguageCode
\* rejects, the empty string included, as it is and without throwing; the two
\* methods agree on the strings that match: what the one accepts the other
\* brings to canonical form, what the one rejects the other leaves alone.
C16_RejectedPassThrough ==
    op = "normalizeLanguageCode" =>
        /\ ~threw
        /\ ~ValidateLanguageCode(tgt) => normalized = tgt
        /\ (earlier.op = "validateLanguageCode" /\ earlier.tgt = tgt) =>
               IF valid THEN normalized = CanonicalTag(tgt) ELSE normalized = tgt

\* HANS-cn was rejected and then comes back from the normalizer as typed
C16_Witness ==
    /\ op = "normalizeLanguageCode"
    /\ earlier.op = "validateLanguageCode"
    /\ tgt = HansUpper \o <<"-">> \o Cn
    /\ earlier.tgt = tgt
    /\ ~valid
    /\ normalized = tgt

\* C18: generateTargetFilePath changes the filesystem only by creating the
\* directory basePath/targetLanguage (with the directories above it that are
\* missing) for a FolderBased source when nothing exists there; when that
\* directory exists the call changes nothing and does not fail; FileBased and
\* Unknown sources leave the filesystem as it was; no file is ever created,
\* the target file in particular.
C18_GenerateFrame ==
    op = "generateTargetFilePath" =>
        LET targetDir == Join(ExpectedBasePath(src), tgt)
        IN  /\ files = preFiles
            /\ preDirs \subseteq dirs
            /\ dirs # preDirs =>
                   /\ ParentIsTag(src)
                   /\ ~ExistsSync(targetDir, preFiles, preDirs)
                   /\ dirs = preDirs \cup Ancestors(targetDir)
            /\ (ParentIsTag(src) /\ targetDir \in preDirs) =>
                   dirs = preDirs /\ ~threw
            /\ ~ParentIsTag(src) => dirs = preDirs /\ ~threw
            /\ ~threw => targetPath \notin files

\* i18n/fr was missing and is there after the call; no file was added
C18_Witness ==
    /\ GenerateReturned
    /\ src = <<I18n, En, Main \o JsonExt>>
    /\ tgt = Fr
    /\ <<I18n>> \in preDirs
    /\ <<I18n, Fr>> \notin preDirs
    /\ dirs = preDirs \cup {<<I18n, Fr>>}
    /\ files = preFiles

C19_DetectionRoundTrip ==
    op = "detectProjectStructure" =>
        LET again == DetectProjectStructure(RebuiltPath(structure, src))
        IN  /\ again.type = structure.type
            /\ again.basePath = structure.basePath
            /\ again.sourceLanguage = structure.sourceLanguage

\* i18n/EN.json is rebuilt from i18n, EN and .json
C19_Witness ==
    /\ op = "detectProjectStructure"
    /\ src = <<I18n, EnUpper \o JsonExt>>
    /\ structure.type = FileBased
    /\ RebuiltPath(structure, src) = src

C21_NothingReserved ==
    /\ ( /\ GenerateReturned
          /\ other.op = "generateTargetFilePath"
          /\ ~other.threw
          /\ other.src = src
          /\ other.tgt = tgt
          /\ ~ExistsSync(targetPath, files, dirs)
          /\ ~ExistsSync(other.targetPath, files, dirs) )
       => targetPath = other.targetPath
    /\ (op = "writeFileSync" /\ targetPath \in preFiles)
       => ~threw /\ targetPath \in files

\* both callers generated the path while it was free and both wrote it
C21_Witness ==
    /\ op = "writeFileSync"
    /\ ~threw
    /\ other.op = "writeFileSync"
    /\ ~other.threw
    /\ other.src = src
    /\ other.tgt = tgt
    /\ other.targetPath = targetPath
    /\ targetPath \in preFiles
    /\ targetPath \notin other.preFiles

\* the steps of handleTranslateCommand that follow the two entry checks
StepsAfterChecks ==
    {"detectLanguagesFromProject", "selectTargetLanguage", "performTranslation",
     "translateJson", "generateTargetFilePath", "writeFileSync"}

\* C22: handleTranslateCommand reaches detectLanguagesFromProject or any later
\* step only if ensureApiKey returned a key and the file's path ends in .json;
\* with no key it returns having done none of them and shown nothing, and
\* with no file or a file that is not .json it shows SelectJsonMessage and
\* returns having done none of them.
C22_EntryChecks ==
    /\ reached \cap StepsAfterChecks # {}
       => /\ secretKey \notin {NoKey, ""}
          /\ src # NoUri
          /\ EndsWith(Basename(src), JsonExt)
    /\ service.op = "ensureApiKey"
       => IF service.apiKey \in {NoKey, ""}
          THEN pc = "done" /\ message = "none" /\ reached = {"ensureApiKey"}
          ELSE IF src = NoUri \/ ~EndsWith(Basename(src), JsonExt)
          THEN /\ pc = "done"
               /\ message = SelectJsonMessage
               /\ reached = {"ensureApiKey"}
          ELSE "detectLanguagesFromProject" \in reached

\* a key was returned and the file is not a .json file: the command has
\* ended with the notice
C22_Witness ==
    /\ service.op = "ensureApiKey"
    /\ service.apiKey = "k1"
    /\ src = <<I18n, Main \o TxtExt>>
    /\ message = SelectJsonMessage
    /\ pc = "done"

\* C23: whenever getApiKey finds a key that is not blank in the
\* configuration, on return secure storage holds that key, the configuration
\* entry is cleared and the key is what was returned.
C23_ConfiguredKeyMigrates ==
    (service.op = "getApiKey" /\ ~IsBlankKey(service.config))
       => /\ service.apiKey = service.config
          /\ secretKey = service.config
          /\ configKey = NoKey

FailedFinishReasons == {"insufficientBalance", "contentFilter", "error"}

\* the messages translateJson may throw with on a status that is not OK
StatusMessages(status) ==
    CASE status = 400 -> {BadRequestMessage, ValidationMessage}
      [] status = 401 -> {InvalidKeyMessage}
      [] status = 402 -> {BalanceMessage, RequiredCharactersMessage}
      [] status = 413 -> {TooLargeMessage}
      [] status = 500 -> {ServerErrorMessage, ServerErrorCodeMessage}
      [] OTHER -> {GenericMessage}

\* the message for a status whose error body tells nothing
PlainStatusMessage(status) ==
    CASE status = 400 -> BadRequestMessage
      [] status = 401 -> InvalidKeyMessage
      [] status = 402 -> BalanceMessage
      [] status = 413 -> TooLargeMessage
      [] status = 500 -> ServerErrorMessage
      [] OTHER -> GenericMessage

\* C25: translateJson returns a result exactly when a key is available, the
\* answer is OK (and is a result: its body is JSON) and the result's
\* finishReason is none of insufficientBalance, contentFilter and error; in
\* every other case it throws: without a key with NoKeyMessage, on 400, 401,
\* 402, 413 and 500 each with a message of its own, on any other status that
\* is not OK with GenericMessage, and likewise when the error body is not
\* JSON; a result whose finishReason is length or stop is returned.
C25_ResultOrThrow ==
    service.op = "translateJson"
       => LET response == service.response
              hasKey == service.apiKey \notin {NoKey, ""}
              ok == response.status \in 200..299
          IN  /\ ~service.threw
                 <=> /\ hasKey
                     /\ ok
                     /\ response.body # "unparsable"
                     /\ response.finishReason \notin FailedFinishReasons
              /\ ~service.threw
                 => /\ service.translations = response.translations
                    /\ service.message = "none"
              /\ ~hasKey => service.message = NoKeyMessage
              /\ (hasKey /\ ~ok)
                 => /\ service.message \in StatusMessages(response.status)
                    /\ \A s \in HttpStatuses \ {response.status} :
                           (s \notin 200..299
                            /\ {s, response.status} \cap {400, 401, 402, 413, 500}
                                   # {})
                              => service.message \notin StatusMessages(s)
                    /\ response.body = "unparsable"
                       => service.message = PlainStatusMessage(response.status)
              /\ (hasKey /\ ok /\ response.body # "unparsable"
                     /\ response.finishReason \in {"length", "stop"})
                 => ~service.threw

\* the result of an OK answer was cut short (finishReason length) and was
\* returned with its translations
C25_Witness ==
    /\ service.op = "translateJson"
    /\ service.apiKey = "k1"
    /\ service.response.status = 200
    /\ service.response.finishReason = "length"
    /\ service.response.translations
    /\ ~service.threw
    /\ service.translations

\* C26: when the source file exists, generateTargetFilePath returns a path
\* other than the source's for every target language; when the target
\* language is the source's own, so that the target would be the source
\* itself, the result is a numbered sibling of the source.
C26_SourceNeverReturned ==
    (GenerateReturned /\ src \in preFiles)
       => /\ targetPath # src
          /\ ExpectedTarget(src, tgt) = src
             => \E k \in 1..(Cardinality(preFiles \cup preDirs) + 1) :
                    targetPath = Numbered(src, k)

\* i18n/EN.json exists and is translated into EN: EN (1).json is returned
C26_Witness ==
    /\ GenerateReturned
    /\ src = <<I18n, EnUpper \o JsonExt>>
    /\ src \in preFiles
    /\ tgt = EnUpper
    /\ targetPath = Numbered(src, 1)

\* C27: two invocations of handleTranslateCommand running at the same time in
\* one extension host, for the same source file and target language, never
\* save to the same path: the path is generated and the file written in one
\* step, so the invocation that saves second finds the first one's file.
C27_DistinctOutputPaths ==
    ( /\ message = SavedMessage
      /\ other.message = SavedMessage
      /\ src = other.src
      /\ tgt = other.tgt )
       => /\ targetPath # other.targetPath
          /\ {targetPath, other.targetPath} \subseteq files

\* both invocations were under way before either saved, and the one that
\* saved second was given the numbered path
C27_Witness ==
    /\ message = SavedMessage
    /\ other.message = SavedMessage
    /\ src = <<I18n, EnUpper \o JsonExt>>
    /\ src = other.src
    /\ tgt = French
    /\ tgt = other.tgt
    /\ other.targetPath = <<I18n, French \o JsonExt>>
    /\ other.targetPath \notin preFiles
    /\ targetPath = Numbered(other.targetPath, 1)

\* translateJson returned a result that holds translations
ResultWithTranslations(call) ==
    /\ call.op = "translateJson"
    /\ call.apiKey \notin {NoKey, ""}
    /\ call.response.status \in 200..299
    /\ call.response.body # "unparsable"
    /\ call.response.finishReason \notin FailedFinishReasons
    /\ call.response.translations

\* C28: handleTranslateCommand changes the filesystem only in the step in
\* which translateJson returned a result with translations; when the request
\* throws or the result holds no translations nothing is created or written;
\* when the command succeeds exactly one file is written, at the path
\* generateTargetFilePath returned, which did not exist.
C28_WritesOnlyAfterResult ==
    [][ /\ (files' # files \/ dirs' # dirs)
           => /\ pc = "translateJson"
              /\ ResultWithTranslations(service')
              /\ "generateTargetFilePath" \in reached'
        /\ (pc = "translateJson" /\ message' = SavedMessage)
           => /\ files' = files \cup {targetPath'}
              /\ ~ExistsSync(targetPath', files, dirs)
              /\ targetPath' \in
                     {ExpectedTarget(src, tgt)}
                     \cup {Numbered(ExpectedTarget(src, tgt), k) :
                               k \in 1..(EntryCount + 1)}
      ]_vars

\* the service returned translations and the command saved them in a file
\* that was not there when it started
C28_Witness ==
    /\ pc = "done"
    /\ message = SavedMessage
    /\ ResultWithTranslations(service)
    /\ targetPath \in files
    /\ targetPath \notin preFiles

\* a file was written at a generated path and the languages of its source
\* are listed next: the source is FolderBased or FileBased and the target is
\* a language code other than the source's, case ignored
WrittenThenListed ==
    /\ op = "writeFileSync"
    /\ ~threw
    /\ op' = "detectLanguagesFromProject"
    /\ src' = src
    /\ ParentIsTag(src) \/ StemIsTag(src)
    /\ ValidateLanguageCode(tgt)
    /\ ToLowerCase(tgt) # ToLowerCase(ExpectedSourceLanguage(src))

\* C29 as stated: once a file generated for a FolderBased or FileBased source
\* and an accepted target language other than the source's has been written,
\* detectLanguagesFromProject on the source lists the target language,
\* whether or not the file was numbered.
C29_WrittenTargetListed ==
    [][ WrittenThenListed
           => tgt \in {languages'[i] : i \in DOMAIN languages'} ]_vars

\* C29: the same, unless the source is FileBased and the path
\* basePath/{target}.json is a directory: then the file written is a numbered
\* one, whose stem is no language code, and the target is listed only if
\* something else carries its name.
C29_WrittenTargetListedUnlessDirectory ==
    [][ ( /\ WrittenThenListed
          /\ ParentIsTag(src) \/ ExpectedTarget(src, tgt) \notin dirs )
           => tgt \in {languages'[i] : i \in DOMAIN languages'} ]_vars

\* i18n/fr.json was a file, the translation was written to fr (1).json and
\* the languages listed for i18n/EN.json hold fr
C29_Witness ==
    /\ op = "detectLanguagesFromProject"
    /\ src = <<I18n, EnUpper \o JsonExt>>
    /\ <<I18n, Fr \o JsonExt>> \in files
    /\ Numbered(<<I18n, Fr \o JsonExt>>, 1) \in files
    /\ languages = <<Fr>>

\* the numbers k for which the sibling `name (k).ext` of p exists
NumberedSiblings(p, fl, dr) ==
    {k \in 1..(Cardinality(fl \cup dr) + 1) : ExistsSync(Numbered(p, k), fl, dr)}

\* C30: on a filesystem that nobody else is writing, with n numbered siblings
\* of the wanted path in existence, the collision resolver returns after at
\* most n + 2 existence checks, and the number in the path it returns is at
\* most n + 1; when the wanted path is free it returns it after one check.
C30_ResolverIsBounded ==
    GenerateReturned
       => LET wanted == ExpectedTarget(src, tgt)
              n == Cardinality(NumberedSiblings(wanted, preFiles, dirs))
          IN  /\ probes >= 1
              /\ probes <= n + 2
              /\ \/ targetPath = wanted /\ probes = 1
                 \/ \E k \in 1..(n + 1) :
                        /\ targetPath = Numbered(wanted, k)
                        /\ probes = k + 1
              /\ ~ExistsSync(targetPath, preFiles, dirs)

\* fr.json and fr (1).json exist: three checks, and fr (2).json is returned
C30_Witness ==
    /\ GenerateReturned
    /\ src = <<I18n, EnUpper \o JsonExt>>
    /\ tgt = Fr
    /\ Cardinality(NumberedSiblings(<<I18n, Fr \o JsonExt>>, preFiles, dirs)) = 1
    /\ probes = 3
    /\ targetPath = Numbered(<<I18n, Fr \o JsonExt>>, 2)

====
